---- MODULE Spec2Model ----
(***************************************************************************)
(* State-machine model of ps78674/ldapserver (src/server.go): the Server   *)
(* (Handle, ListenAndServe, serve, Stop) and the per-connection client     *)
(* (serve, write pump, shutdown watcher, ProcessRequestMessage, close).    *)
(* Channels, WaitGroups and the mutex are modelled with Go's semantics:    *)
(* an unbuffered send is a rendezvous with the receiver, closing a nil or  *)
(* closed channel and sending on a closed channel panic, and a panic in    *)
(* any goroutine ends the whole process (crashed # "none").                *)
(***************************************************************************)
EXTENDS Naturals, Sequences, FiniteSets

\* ------------------------------------------------------------------ bounds
MaxSessions == 2
MaxRequests == 2
MaxMsgID == 2
MaxResponses == 1
MaxLoad == 1
MaxSoloSessions == 1
MaxSoloLoad == 3
MaxFairLoad == 2
MaxLookupLoad == 2

\* Done: make(chan bool, 2)
DoneCap == 2

Sessions == 1..MaxSessions
Reqs == 1..MaxRequests
MsgIDs == 1..MaxMsgID

Nil == "nil"
Handlers == {"h1", "h2"}

\* ------------------------------------------------------------------- state
VARIABLES
  Handler,      \* Server.Handler: Nil or the registered handler
  srvPC,        \* position of ListenAndServe / Server.serve
  chDone,       \* Server.chDone is closed
  srvWg,        \* Server.wg counter
  stopPC,       \* position of the caller of Server.Stop
  ReadTimeout,  \* Server.ReadTimeout (0 = disabled)
  i,            \* Server.serve's connection counter
  ch,           \* number of errors sent on the startup channel ch
  crashed,      \* "none", or the panic that ended the process
  sPC,          \* per client: position of client.serve / client.close
  cause,        \* per client: why the read loop returned
  rdl,          \* per client: read deadline in force on rwc
  closing,      \* per client: c.closing is closed
  chanOut,      \* per client: c.chanOut is "nil", "open" or "closed"
  writeDone,    \* per client: c.writeDone is closed
  rwc,          \* per client: the connection is "none", "open" or "closed"
  wg,           \* per client: c.wg counter
  requestList,  \* per client: message id -> registered request (0 = absent)
  pumpPC,       \* per client: position of the write pump goroutine
  pumpMsg,      \* per client: the message the write pump is writing
  wPC,          \* per client: position of the shutdown watcher goroutine
  wire,         \* per client: chunks written to rwc, with their writer
  sentQ,        \* per client: messages whose send on chanOut completed
  nClosed,      \* per client: number of close(c.chanOut) executed
  atBroadcast,  \* per client: the session was live when Stop closed chDone
  req           \* per request slot: the Message and its goroutine's position

srvVars == <<Handler, srvPC, chDone, srvWg, stopPC, ReadTimeout, i, ch>>
cliVars == <<sPC, cause, rdl, closing, rwc, wg, requestList, nClosed>>
Live(s) == sPC[s] \notin {"none", "closed"}
outVars == <<chanOut, writeDone, pumpPC, pumpMsg, wPC, wire, sentQ>>
vars == <<srvVars, crashed, cliVars, outVars, req, atBroadcast>>

\* --------------------------------------------------------------- messages
NoMsg == [rid |-> 0, mid |-> 0, n |-> 0, notice |-> FALSE]
\* NewExtendedResponse + SetResponseName(NoticeOfDisconnection): message id 0
Notice == [rid |-> 0, mid |-> 0, n |-> 0, notice |-> TRUE]
\* a response built by the handler of request r, before it is stamped
NewResponse(r, mid0, k) == [rid |-> r, mid |-> mid0, n |-> k, notice |-> FALSE]

\* a response writer that leaves the message id of the handler's message
SetMessageID_Keep(m, id) == m

SetMessageID(m, id) == [m EXCEPT !.mid = id]

\* a request slot: the Message (id, Done), its goroutine (st, nout, and in
\* lookup the key it is reading in c.requestList, 0 outside GetMessageByID)
\* and the Abandon goroutines started for it (abandons), all of them counted
\* in swept
NoReq == [sess |-> 0, id |-> 0, kind |-> "none", st |-> "none", nout |-> 0,
          Done |-> 0, abandons |-> 0, swept |-> 0, lookup |-> 0]

EmptyList == [id \in MsgIDs |-> 0]

\* ------------------------------------------------------------------- Init
Init ==
  /\ Handler = Nil
  /\ srvPC = "new"
  /\ chDone = FALSE
  /\ srvWg = 0
  /\ stopPC = "idle"
  /\ ReadTimeout = 0
  /\ i = 0
  /\ ch = 0
  /\ crashed = "none"
  /\ sPC = [s \in Sessions |-> "none"]
  /\ cause = [s \in Sessions |-> "none"]
  /\ rdl = [s \in Sessions |-> "none"]
  /\ closing = [s \in Sessions |-> FALSE]
  /\ chanOut = [s \in Sessions |-> "nil"]
  /\ writeDone = [s \in Sessions |-> FALSE]
  /\ rwc = [s \in Sessions |-> "none"]
  /\ wg = [s \in Sessions |-> 0]
  /\ requestList = [s \in Sessions |-> EmptyList]
  /\ pumpPC = [s \in Sessions |-> "off"]
  /\ pumpMsg = [s \in Sessions |-> NoMsg]
  /\ wPC = [s \in Sessions |-> "off"]
  /\ wire = [s \in Sessions |-> <<>>]
  /\ sentQ = [s \in Sessions |-> <<>>]
  /\ nClosed = [s \in Sessions |-> 0]
  /\ atBroadcast = [s \in Sessions |-> FALSE]
  /\ req = [r \in Reqs |-> NoReq]

\* the load of a state: the requests in use, and a shutdown in progress.
\* The model is explored up to a number of accepted connections and up to a
\* load, which the actions that add to either take as parameters.
InUse == Cardinality({r \in Reqs : req[r].st # "none"})
Load == InUse + (IF chDone THEN 1 ELSE 0)

\* a panic in a goroutine of the running server ends the process: its
\* goroutines, channels and connections are gone, and only the configuration
\* and the reason of the panic are left
Panic(why) ==
  /\ crashed' = why
  /\ UNCHANGED <<Handler, ReadTimeout, ch>>
  /\ srvPC' = "dead" /\ chDone' = FALSE /\ srvWg' = 0 /\ stopPC' = "dead" /\ i' = 0
  /\ atBroadcast' = [s \in Sessions |-> FALSE]
  /\ sPC' = [s \in Sessions |-> "none"]
  /\ cause' = [s \in Sessions |-> "none"]
  /\ rdl' = [s \in Sessions |-> "none"]
  /\ closing' = [s \in Sessions |-> FALSE]
  /\ chanOut' = [s \in Sessions |-> "nil"]
  /\ writeDone' = [s \in Sessions |-> FALSE]
  /\ rwc' = [s \in Sessions |-> "none"]
  /\ wg' = [s \in Sessions |-> 0]
  /\ requestList' = [s \in Sessions |-> EmptyList]
  /\ pumpPC' = [s \in Sessions |-> "off"]
  /\ pumpMsg' = [s \in Sessions |-> NoMsg]
  /\ wPC' = [s \in Sessions |-> "off"]
  /\ wire' = [s \in Sessions |-> <<>>]
  /\ sentQ' = [s \in Sessions |-> <<>>]
  /\ nClosed' = [s \in Sessions |-> 0]
  /\ req' = [r \in Reqs |-> NoReq]

\* ----------------------------------------------------------------- Server
\* a registration that replaces the handler instead of panicking
Handle_Overwrite(h) ==
  /\ srvPC = "new"
  /\ Handler = Nil => h \in {Nil, "h1"}
  /\ Handler' = h
  /\ UNCHANGED <<srvPC, chDone, srvWg, stopPC, ReadTimeout, i, ch>>
  /\ UNCHANGED <<crashed, cliVars, outVars, req, atBroadcast>>

\* Server.Handle: panics when a handler is already registered.  The first
\* handler an application registers is called h1.
Handle(h) ==
  /\ srvPC = "new"
  /\ Handler = Nil => h \in {Nil, "h1"}
  /\ IF Handler # Nil
       THEN Panic("LDAP: multiple Handler registrations")
       ELSE /\ Handler' = h
            /\ UNCHANGED <<srvPC, chDone, srvWg, stopPC, ReadTimeout, i, ch>>
            /\ UNCHANGED <<crashed, cliVars, outVars, req, atBroadcast>>

\* startup fails: `ch <- fmt.Errorf(...); return`.  A send on a nil channel
\* blocks forever.
StartupError(hasCh) ==
  /\ srvPC' = IF hasCh THEN "bindfail" ELSE "blocked"
  /\ ch' = IF hasCh THEN ch + 1 ELSE ch
  /\ UNCHANGED <<Handler, chDone, srvWg, stopPC, ReadTimeout, i>>
  /\ UNCHANGED <<crashed, cliVars, outVars, req, atBroadcast>>

\* a startup that reports the error and goes on to serve
ListenAndServe_NoReturn(ok, rt, hasCh) ==
  /\ srvPC = "new"
  /\ Handler # Nil
  /\ ch' = IF ~ok /\ hasCh THEN ch + 1 ELSE ch
  /\ ReadTimeout' = rt
  /\ srvPC' = "check"
  /\ UNCHANGED <<Handler, chDone, srvWg, stopPC, i>>
  /\ UNCHANGED <<crashed, cliVars, outVars, req, atBroadcast>>

\* Server.ListenAndServe: net.Listen, close(ch), the options, then
\* Server.serve's handler check (log.Panicln when no handler is registered)
ListenAndServe(ok, rt, hasCh) ==
  /\ srvPC = "new"
  /\ IF ~ok
       THEN StartupError(hasCh)
       ELSE IF Handler = Nil
         THEN Panic("No LDAP Request Handler defined")
         ELSE /\ ReadTimeout' = rt
              /\ srvPC' = "check"
              /\ UNCHANGED <<Handler, chDone, srvWg, stopPC, i, ch>>
              /\ UNCHANGED <<crashed, cliVars, outVars, req, atBroadcast>>

\* Server.ListenAndServeTLS: tls.LoadX509KeyPair, then as ListenAndServe
\* with tls.Listen
ListenAndServeTLS(certOk, ok, rt, hasCh) ==
  /\ srvPC = "new"
  /\ IF ~certOk
       THEN StartupError(hasCh)
       ELSE ListenAndServe(ok, rt, hasCh)

\* Server.serve, top of the loop: the non-blocking select on chDone
AcceptCheck ==
  /\ srvPC = "check"
  /\ srvPC' = IF chDone THEN "returned" ELSE "accept"
  /\ UNCHANGED <<Handler, chDone, srvWg, stopPC, ReadTimeout, i, ch>>
  /\ UNCHANGED <<crashed, cliVars, outVars, req>>
  /\ UNCHANGED atBroadcast

\* an accept loop that spawns the session without s.wg.Add(1)
AcceptConn_NoAdd(maxS) ==
  /\ srvPC = "accept"
  /\ i < maxS
  /\ i' = i + 1
  /\ rwc' = [rwc EXCEPT ![i + 1] = "open"]
  /\ rdl' = [rdl EXCEPT ![i + 1] = IF ReadTimeout # 0 THEN "timeout" ELSE "none"]
  /\ sPC' = [sPC EXCEPT ![i + 1] = "start"]
  /\ srvPC' = "check"
  /\ UNCHANGED <<Handler, chDone, srvWg, stopPC, ReadTimeout, crashed, ch>>
  /\ UNCHANGED <<cause, closing, wg, requestList, nClosed, outVars, req, atBroadcast>>

\* Server.serve: Accept returned a connection; deadlines, newClient,
\* s.wg.Add(1), go cli.serve().  sync.WaitGroup panics when Add finds the
\* counter at zero while a Wait that was blocked has not returned yet.
AcceptConn(maxS) ==
  /\ srvPC = "accept"
  /\ i < maxS
  /\ IF stopPC = "waiting" /\ srvWg = 0
       THEN Panic("sync: WaitGroup misuse (Server.wg)")
       ELSE /\ i' = i + 1
            /\ srvWg' = srvWg + 1
            /\ rwc' = [rwc EXCEPT ![i + 1] = "open"]
            /\ rdl' = [rdl EXCEPT ![i + 1] = IF ReadTimeout # 0 THEN "timeout" ELSE "none"]
            /\ sPC' = [sPC EXCEPT ![i + 1] = "start"]
            /\ srvPC' = "check"
            /\ UNCHANGED <<Handler, chDone, stopPC, ReadTimeout, crashed, ch>>
            /\ UNCHANGED <<cause, closing, wg, requestList, nClosed, outVars, req, atBroadcast>>

\* Server.serve: Accept returned (nil, err).  With a timeout configured the
\* deadline is set on the nil connection before err is looked at; a
\* non-timeout error falls through to newClient(nil) and
\* cli.rwc.RemoteAddr().  Both dereference nil.
AcceptError(isTimeout, wt) ==
  /\ srvPC = "accept"
  /\ IF ReadTimeout # 0 \/ wt # 0 \/ ~isTimeout
       THEN Panic("nil pointer dereference (Server.serve)")
       ELSE /\ srvPC' = "check"
            /\ UNCHANGED <<Handler, chDone, srvWg, stopPC, ReadTimeout, i, ch>>
            /\ UNCHANGED <<crashed, cliVars, outVars, req, atBroadcast>>

\* a Stop that returns at once when the server is stopping already
Stop_Guarded(maxL) ==
  /\ stopPC \in {"idle", "returned"}
  /\ chDone \/ Load < maxL
  /\ chDone' = TRUE
  /\ stopPC' = IF chDone \/ srvWg = 0 THEN "returned" ELSE "waiting"
  /\ atBroadcast' = IF chDone THEN atBroadcast ELSE [s \in Sessions |-> Live(s)]
  /\ UNCHANGED <<Handler, srvPC, srvWg, ReadTimeout, i, ch>>
  /\ UNCHANGED <<crashed, cliVars, outVars, req>>

\* Server.Stop: close(s.chDone), and s.wg.Wait() is entered: it returns at
\* once on a zero counter.  A second call closes a closed channel.
Stop(maxL) ==
  /\ stopPC \in {"idle", "returned"}
  /\ chDone \/ Load < maxL
  /\ IF chDone
       THEN Panic("close of closed channel (chDone)")
       ELSE /\ chDone' = TRUE
            /\ stopPC' = IF srvWg = 0 THEN "returned" ELSE "waiting"
            /\ atBroadcast' = [s \in Sessions |-> Live(s)]
            /\ UNCHANGED <<Handler, srvPC, srvWg, ReadTimeout, i, ch>>
            /\ UNCHANGED <<crashed, cliVars, outVars, req>>

\* Server.Stop: the blocked s.wg.Wait() returns once the counter is zero
StopReturn ==
  /\ stopPC = "waiting"
  /\ srvWg = 0
  /\ stopPC' = "returned"
  /\ UNCHANGED <<Handler, srvPC, chDone, srvWg, ReadTimeout, i, ch>>
  /\ UNCHANGED <<crashed, cliVars, outVars, req>>
  /\ UNCHANGED atBroadcast

\* ------------------------------------------------------- client.serve
\* the slot a new Message takes: the lowest one not in use
FreeSlot(r) ==
  /\ req[r].st = "none"
  /\ \A q \in Reqs : q < r => req[q].st # "none"

\* the next loop iteration: with ReadTimeout = 0 no deadline is set before
\* ReadPacket
LoopTop == IF ReadTimeout # 0 THEN "top" ELSE "reading"

\* the read loop leaves through `return`: the deferred c.close() is next
LoopReturn(s, why) ==
  /\ sPC' = [sPC EXCEPT ![s] = "c_closing"]
  /\ cause' = [cause EXCEPT ![s] = why]

\* client.serve up to the read loop: make(c.closing), the admission hook,
\* make(c.chanOut), make(c.writeDone), go write pump, go shutdown watcher
SessionStart(s, admit) ==
  /\ sPC[s] = "start"
  /\ IF admit
       THEN /\ chanOut' = [chanOut EXCEPT ![s] = "open"]
            /\ pumpPC' = [pumpPC EXCEPT ![s] = "recv"]
            /\ wPC' = [wPC EXCEPT ![s] = "select"]
            /\ sPC' = [sPC EXCEPT ![s] = LoopTop]
            /\ UNCHANGED cause
       ELSE /\ LoopReturn(s, "reject")
            /\ UNCHANGED <<chanOut, pumpPC, wPC>>
  /\ UNCHANGED <<srvVars, crashed, rdl, closing, rwc, wg, requestList, nClosed>>
  /\ UNCHANGED <<writeDone, pumpMsg, wire, sentQ, req>>
  /\ UNCHANGED atBroadcast

\* read loop, top: SetReadDeadline(now + ReadTimeout) when it is non-zero
ReadArm(s) ==
  /\ sPC[s] = "top"
  /\ rdl' = [rdl EXCEPT ![s] = "timeout"]
  /\ sPC' = [sPC EXCEPT ![s] = "reading"]
  /\ UNCHANGED <<srvVars, crashed, cause, closing, rwc, wg, requestList, nClosed>>
  /\ UNCHANGED <<outVars, req>>
  /\ UNCHANGED atBroadcast

\* message ids are names the client picks: a new request carries an id of
\* a request the session still knows, or the lowest id not yet used
KnownIDs(s) == {req[q].id : q \in {p \in Reqs : req[p].sess = s}}
ClientID(s, id) == id \in KnownIDs(s) \/ \A k \in MsgIDs : k < id => k \in KnownIDs(s)

\* a read loop that dispatches every request, STARTTLS too, in a goroutine
ReadRequest_AllAsync(s, r, id, kind, maxL) ==
  /\ sPC[s] = "reading"
  /\ rwc[s] = "open"
  /\ Load < maxL
  /\ FreeSlot(r)
  /\ ClientID(s, id)
  /\ req' = [req EXCEPT ![r] = [NoReq EXCEPT !.sess = s, !.id = id, !.kind = kind,
                                             !.st = "spawned"]]
  /\ wg' = [wg EXCEPT ![s] = @ + 1]
  /\ sPC' = [sPC EXCEPT ![s] = LoopTop]
  /\ UNCHANGED <<srvVars, crashed, cause, rdl, closing, rwc, requestList, nClosed>>
  /\ UNCHANGED outVars
  /\ UNCHANGED atBroadcast

\* read loop: a request other than unbind is decoded.  c.wg.Add(1), then
\* ProcessRequestMessage in a goroutine, or inline for STARTTLS.
ReadRequest(s, r, id, kind, maxL) ==
  /\ sPC[s] = "reading"
  /\ rwc[s] = "open"
  /\ Load < maxL
  /\ FreeSlot(r)
  /\ ClientID(s, id)
  /\ req' = [req EXCEPT ![r] = [NoReq EXCEPT !.sess = s, !.id = id, !.kind = kind,
                                             !.st = "spawned"]]
  /\ wg' = [wg EXCEPT ![s] = @ + 1]
  /\ sPC' = [sPC EXCEPT ![s] = IF kind = "starttls" THEN "sync" ELSE LoopTop]
  /\ UNCHANGED <<srvVars, crashed, cause, rdl, closing, rwc, requestList, nClosed>>
  /\ UNCHANGED outVars
  /\ UNCHANGED atBroadcast

\* an unbind that is noted while the read loop goes on reading
ReadUnbind_Continue(s) ==
  /\ sPC[s] = "reading"
  /\ rwc[s] = "open"
  /\ cause' = [cause EXCEPT ![s] = "unbind"]
  /\ sPC' = [sPC EXCEPT ![s] = LoopTop]
  /\ UNCHANGED <<srvVars, crashed, rdl, closing, rwc, wg, requestList, nClosed>>
  /\ UNCHANGED <<outVars, req>>
  /\ UNCHANGED atBroadcast

\* read loop: an UnbindRequest is decoded: return
ReadUnbind(s) ==
  /\ sPC[s] = "reading"
  /\ rwc[s] = "open"
  /\ LoopReturn(s, "unbind")
  /\ UNCHANGED <<srvVars, crashed, rdl, closing, rwc, wg, requestList, nClosed>>
  /\ UNCHANGED <<outVars, req>>
  /\ UNCHANGED atBroadcast

\* read loop: ReadPacket fails (io.EOF, I/O error) or readMessage fails
ReadFail(s, why) ==
  /\ sPC[s] = "reading"
  /\ why \in {"eof", "ioerror", "decode"}
  /\ LoopReturn(s, "error")
  /\ UNCHANGED <<srvVars, crashed, rdl, closing, rwc, wg, requestList, nClosed>>
  /\ UNCHANGED <<outVars, req>>
  /\ UNCHANGED atBroadcast

\* read loop: ReadPacket fails with a timeout: a read deadline passed
ReadTimeoutFire(s) ==
  /\ sPC[s] = "reading"
  /\ rdl[s] # "none"
  /\ LoopReturn(s, "error")
  /\ UNCHANGED <<srvVars, crashed, rdl, closing, rwc, wg, requestList, nClosed>>
  /\ UNCHANGED <<outVars, req>>
  /\ UNCHANGED atBroadcast

\* ---------------------------------------------- ProcessRequestMessage
\* registerRequest, under c.mutex: c.requestList[id] = m
registerRequest(l, id, r) == [l EXCEPT ![id] = r]

\* unregisterRequest, under c.mutex: delete(c.requestList, id)
unregisterRequest(l, id, r) == [l EXCEPT ![id] = 0]

\* the handlers of session s that are inside GetMessageByID: they read
\* c.requestList and hold no lock
Reading(s) == {q \in Reqs : req[q].sess = s /\ req[q].lookup # 0}

\* ProcessRequestMessage up to the handler call: the Message is built and
\* registered.  A map write while another goroutine reads the map is a data
\* race: the runtime either lets it pass or ends the process with
\* "concurrent map read and map write" (detected).
Register(r, detected) ==
  /\ req[r].st = "spawned"
  /\ IF detected /\ Reading(req[r].sess) # {}
       THEN Panic("concurrent map read and map write")
       ELSE /\ requestList' = [requestList EXCEPT ![req[r].sess] =
                                  registerRequest(@, req[r].id, r)]
            /\ req' = [req EXCEPT ![r].st = "running"]
            /\ UNCHANGED <<srvVars, crashed, sPC, cause, rdl, closing, rwc, wg, nClosed>>
            /\ UNCHANGED outVars
            /\ UNCHANGED atBroadcast

\* the running handler calls m.Client.GetMessageByID(id): the read of
\* c.requestList[id] begins, without c.mutex
GetMessageByID(r, id) ==
  /\ req[r].st = "running"
  /\ req[r].lookup = 0
  /\ req' = [req EXCEPT ![r].lookup = id]
  /\ UNCHANGED <<srvVars, crashed, cliVars, outVars>>
  /\ UNCHANGED atBroadcast

\* GetMessageByID returns (c.requestList[id], ok) to the handler
GetMessageByIDReturn(r) ==
  /\ req[r].lookup # 0
  /\ req' = [req EXCEPT ![r].lookup = 0]
  /\ UNCHANGED <<srvVars, crashed, cliVars, outVars>>
  /\ UNCHANGED atBroadcast

\* a send on c.chanOut that the write pump receives (unbuffered channel)
Enqueue(s, m) ==
  /\ chanOut[s] = "open"
  /\ pumpPC[s] = "recv"
  /\ pumpMsg' = [pumpMsg EXCEPT ![s] = m]
  /\ pumpPC' = [pumpPC EXCEPT ![s] = "write"]
  /\ sentQ' = [sentQ EXCEPT ![s] = Append(@, m)]
  /\ UNCHANGED <<chanOut, writeDone, wire>>

\* a response writer that encodes onto the connection itself
ResponseWrite_Direct(r, mid0) ==
  /\ req[r].st = "running"
  /\ req[r].lookup = 0
  /\ req[r].nout < MaxResponses
  /\ LET s == req[r].sess
         m == SetMessageID(NewResponse(r, mid0, req[r].nout + 1), req[r].id)
     IN  /\ rwc[s] = "open"
         /\ wire' = [wire EXCEPT ![s] = Append(@, [m |-> m, part |-> "head", by |-> "handler"])]
         /\ req' = [req EXCEPT ![r].nout = @ + 1]
         /\ UNCHANGED <<srvVars, crashed, cliVars, atBroadcast>>
         /\ UNCHANGED <<chanOut, writeDone, pumpPC, pumpMsg, wPC, sentQ>>

\* responseWriterImpl.Write / WriteMessage called by the running handler:
\* the message id is stamped, then the message is sent on chanOut; a send on
\* a closed channel panics
ResponseWrite(r, mid0) ==
  /\ req[r].st = "running"
  /\ req[r].lookup = 0
  /\ req[r].nout < MaxResponses
  /\ LET s == req[r].sess
         m == SetMessageID(NewResponse(r, mid0, req[r].nout + 1), req[r].id)
     IN  IF chanOut[s] = "closed"
           THEN Panic("send on closed channel (handler)")
           ELSE /\ Enqueue(s, m)
                /\ req' = [req EXCEPT ![r].nout = @ + 1]
                /\ UNCHANGED <<srvVars, crashed, cliVars, wPC, atBroadcast>>

\* Message.Abandon, in the goroutine the teardown sweep started for it:
\* m.Done <- true, which waits while the channel is full
Abandon(r) ==
  /\ req[r].abandons > 0
  /\ req[r].Done < DoneCap
  /\ req' = [req EXCEPT ![r].abandons = @ - 1, ![r].Done = @ + 1]
  /\ UNCHANGED <<srvVars, crashed, cliVars, outVars>>
  /\ UNCHANGED atBroadcast

\* what is left of a Message once its goroutine has ended: nothing, unless a
\* response on the wire still names it
Returned(q) ==
  IF q.nout > 0
    THEN [NoReq EXCEPT !.sess = q.sess, !.id = q.id, !.kind = q.kind,
                       !.nout = q.nout, !.st = "done"]
    ELSE NoReq

\* the handler returns: the deferred unregisterRequest, then the deferred
\* c.wg.Done(); a STARTTLS request ran on the read loop, which continues.
\* The delete races with the lookups of the other handlers as the insert
\* does.
HandlerReturn(r, detected) ==
  /\ req[r].st = "running"
  /\ req[r].lookup = 0
  /\ LET s == req[r].sess
     IN  IF detected /\ Reading(s) # {}
           THEN Panic("concurrent map read and map write")
           ELSE /\ requestList' = [requestList EXCEPT ![s] =
                                      unregisterRequest(@, req[r].id, r)]
                /\ wg' = [wg EXCEPT ![s] = @ - 1]
                /\ sPC' = [sPC EXCEPT ![s] =
                              IF req[r].kind = "starttls" THEN LoopTop ELSE @]
                /\ req' = [req EXCEPT ![r] = Returned(req[r])]
                /\ UNCHANGED <<srvVars, crashed, cause, rdl, closing, rwc, nClosed>>
                /\ UNCHANGED outVars
                /\ UNCHANGED atBroadcast

\* ----------------------------------------------------------- write pump
\* for msg := range c.chanOut { c.writeMessage(msg) }: bw.Write
PumpWrite(s) ==
  /\ pumpPC[s] = "write"
  /\ wire' = [wire EXCEPT ![s] = Append(@, [m |-> pumpMsg[s], part |-> "head", by |-> "pump"])]
  /\ pumpPC' = [pumpPC EXCEPT ![s] = "flush"]
  /\ UNCHANGED <<srvVars, crashed, cliVars, chanOut, writeDone, pumpMsg, wPC, sentQ, req>>
  /\ UNCHANGED atBroadcast

\* c.writeMessage: bw.Flush
PumpFlush(s) ==
  /\ pumpPC[s] = "flush"
  /\ wire' = [wire EXCEPT ![s] = Append(@, [m |-> pumpMsg[s], part |-> "tail", by |-> "pump"])]
  /\ pumpPC' = [pumpPC EXCEPT ![s] = "recv"]
  /\ pumpMsg' = [pumpMsg EXCEPT ![s] = NoMsg]
  /\ UNCHANGED <<srvVars, crashed, cliVars, chanOut, writeDone, wPC, sentQ, req>>
  /\ UNCHANGED atBroadcast

\* the range loop ends on the closed, drained channel: close(c.writeDone)
PumpExit(s) ==
  /\ pumpPC[s] = "recv"
  /\ chanOut[s] = "closed"
  /\ writeDone' = [writeDone EXCEPT ![s] = TRUE]
  /\ pumpPC' = [pumpPC EXCEPT ![s] = "exit"]
  /\ UNCHANGED <<srvVars, crashed, cliVars, chanOut, pumpMsg, wPC, wire, sentQ, req>>
  /\ UNCHANGED atBroadcast

\* ----------------------------------------------------- shutdown watcher
\* select: case <-c.srv.chDone, then c.wg.Add(1).  sync.WaitGroup panics
\* when Add finds the counter at zero while a Wait that was blocked has
\* not returned yet.
WatcherShutdown(s) ==
  /\ wPC[s] = "select"
  /\ chDone
  /\ IF sPC[s] = "c_waiting" /\ wg[s] = 0
       THEN Panic("sync: WaitGroup misuse (client.wg)")
       ELSE /\ wg' = [wg EXCEPT ![s] = @ + 1]
            /\ wPC' = [wPC EXCEPT ![s] = "send"]
            /\ UNCHANGED <<srvVars, crashed, sPC, cause, rdl, closing, rwc, requestList, nClosed>>
            /\ UNCHANGED <<chanOut, writeDone, pumpPC, pumpMsg, wire, sentQ, req, atBroadcast>>

\* select: case <-c.closing: return
WatcherClosing(s) ==
  /\ wPC[s] = "select"
  /\ closing[s]
  /\ wPC' = [wPC EXCEPT ![s] = "exit"]
  /\ UNCHANGED <<srvVars, crashed, cliVars>>
  /\ UNCHANGED <<chanOut, writeDone, pumpPC, pumpMsg, wire, sentQ, req>>
  /\ UNCHANGED atBroadcast

\* a watcher that goes back to its select after the send
WatcherSend_Again(s) ==
  /\ wPC[s] = "send"
  /\ IF chanOut[s] = "closed"
       THEN Panic("send on closed channel (watcher)")
       ELSE /\ Enqueue(s, Notice)
            /\ wg' = [wg EXCEPT ![s] = @ - 1]
            /\ wPC' = [wPC EXCEPT ![s] = "select"]
            /\ UNCHANGED <<srvVars, crashed, sPC, cause, rdl, closing, rwc, requestList, nClosed, req, atBroadcast>>

\* c.chanOut <- m (the Notice of Disconnection), then c.wg.Done()
WatcherSend(s) ==
  /\ wPC[s] = "send"
  /\ IF chanOut[s] = "closed"
       THEN Panic("send on closed channel (watcher)")
       ELSE /\ Enqueue(s, Notice)
            /\ wg' = [wg EXCEPT ![s] = @ - 1]
            /\ wPC' = [wPC EXCEPT ![s] = "deadline"]
            /\ UNCHANGED <<srvVars, crashed, sPC, cause, rdl, closing, rwc, requestList, nClosed, req, atBroadcast>>

\* c.rwc.SetReadDeadline(now + 1ms); return
WatcherDeadline(s) ==
  /\ wPC[s] = "deadline"
  /\ rdl' = [rdl EXCEPT ![s] = "imminent"]
  /\ wPC' = [wPC EXCEPT ![s] = "exit"]
  /\ UNCHANGED <<srvVars, crashed, sPC, cause, closing, rwc, wg, requestList, nClosed>>
  /\ UNCHANGED <<chanOut, writeDone, pumpPC, pumpMsg, wire, sentQ, req>>
  /\ UNCHANGED atBroadcast

\* --------------------------------------------------------- client.close
\* close(c.closing); c.rwc.SetReadDeadline(now + 1ms)
CloseClosing(s) ==
  /\ sPC[s] = "c_closing"
  /\ closing' = [closing EXCEPT ![s] = TRUE]
  /\ rdl' = [rdl EXCEPT ![s] = "imminent"]
  /\ sPC' = [sPC EXCEPT ![s] = "c_sweep"]
  /\ UNCHANGED <<srvVars, crashed, cause, rwc, wg, requestList, nClosed>>
  /\ UNCHANGED <<outVars, req>>
  /\ UNCHANGED atBroadcast

\* the requests the sweep ranges over: the values of c.requestList
Registered(s) == {requestList[s][id] : id \in MsgIDs} \ {0}

\* under c.mutex: for _, request := range c.requestList { go request.Abandon() }
Sweep(s) ==
  [r \in Reqs |-> IF r \in Registered(s)
                    THEN [req[r] EXCEPT !.abandons = @ + 1, !.swept = @ + 1]
                    ELSE req[r]]

CloseSweep(s) ==
  /\ sPC[s] = "c_sweep"
  /\ req' = Sweep(s)
  /\ sPC' = [sPC EXCEPT ![s] = "c_wait"]
  /\ UNCHANGED <<srvVars, crashed, cause, rdl, closing, rwc, wg, requestList, nClosed>>
  /\ UNCHANGED outVars
  /\ UNCHANGED atBroadcast

\* a teardown that does not wait for the handlers
CloseWait_NoBarrier(s) ==
  /\ sPC[s] = "c_wait"
  /\ sPC' = [sPC EXCEPT ![s] = "c_chanout"]
  /\ UNCHANGED <<srvVars, crashed, cause, rdl, closing, rwc, wg, requestList, nClosed>>
  /\ UNCHANGED <<outVars, req>>
  /\ UNCHANGED atBroadcast

\* c.wg.Wait() is entered; it returns at once on a zero counter
CloseWait(s) ==
  /\ sPC[s] = "c_wait"
  /\ sPC' = [sPC EXCEPT ![s] = IF wg[s] = 0 THEN "c_chanout" ELSE "c_waiting"]
  /\ UNCHANGED <<srvVars, crashed, cause, rdl, closing, rwc, wg, requestList, nClosed>>
  /\ UNCHANGED <<outVars, req>>
  /\ UNCHANGED atBroadcast

\* the blocked c.wg.Wait() returns once the counter is zero
CloseWaitReturn(s) ==
  /\ sPC[s] = "c_waiting"
  /\ wg[s] = 0
  /\ sPC' = [sPC EXCEPT ![s] = "c_chanout"]
  /\ UNCHANGED <<srvVars, crashed, cause, rdl, closing, rwc, wg, requestList, nClosed>>
  /\ UNCHANGED <<outVars, req>>
  /\ UNCHANGED atBroadcast

\* a teardown that closes the connection right after the outbound queue
CloseChanOut_SkipPump(s) ==
  /\ sPC[s] = "c_chanout"
  /\ chanOut[s] # "nil"
  /\ chanOut' = [chanOut EXCEPT ![s] = "closed"]
  /\ nClosed' = [nClosed EXCEPT ![s] = @ + 1]
  /\ sPC' = [sPC EXCEPT ![s] = "c_conn"]
  /\ UNCHANGED <<srvVars, crashed, cause, rdl, closing, rwc, wg, requestList>>
  /\ UNCHANGED <<writeDone, pumpPC, pumpMsg, wPC, wire, sentQ, req, atBroadcast>>

\* close(c.chanOut): closing a nil channel panics
CloseChanOut(s) ==
  /\ sPC[s] = "c_chanout"
  /\ IF chanOut[s] = "nil"
       THEN Panic("close of nil channel (chanOut)")
       ELSE /\ chanOut' = [chanOut EXCEPT ![s] = "closed"]
            /\ nClosed' = [nClosed EXCEPT ![s] = @ + 1]
            /\ sPC' = [sPC EXCEPT ![s] = "c_writedone"]
            /\ UNCHANGED <<srvVars, crashed, cause, rdl, closing, rwc, wg, requestList>>
            /\ UNCHANGED <<writeDone, pumpPC, pumpMsg, wPC, wire, sentQ, req, atBroadcast>>

\* a teardown that does not wait for the write pump
CloseWriteDone_NoWait(s) ==
  /\ sPC[s] = "c_writedone"
  /\ sPC' = [sPC EXCEPT ![s] = "c_conn"]
  /\ UNCHANGED <<srvVars, crashed, cause, rdl, closing, rwc, wg, requestList, nClosed>>
  /\ UNCHANGED <<outVars, req>>
  /\ UNCHANGED atBroadcast

\* <-c.writeDone
CloseWriteDone(s) ==
  /\ sPC[s] = "c_writedone"
  /\ writeDone[s]
  /\ sPC' = [sPC EXCEPT ![s] = "c_conn"]
  /\ UNCHANGED <<srvVars, crashed, cause, rdl, closing, rwc, wg, requestList, nClosed>>
  /\ UNCHANGED <<outVars, req>>
  /\ UNCHANGED atBroadcast

\* c.rwc.Close()
CloseConn(s) ==
  /\ sPC[s] = "c_conn"
  /\ rwc' = [rwc EXCEPT ![s] = "closed"]
  /\ sPC' = [sPC EXCEPT ![s] = "c_srvdone"]
  /\ UNCHANGED <<srvVars, crashed, cause, rdl, closing, wg, requestList, nClosed>>
  /\ UNCHANGED <<outVars, req>>
  /\ UNCHANGED atBroadcast

\* c.srv.wg.Done()
CloseSrvDone(s) ==
  /\ sPC[s] = "c_srvdone"
  /\ srvWg' = srvWg - 1
  /\ sPC' = [sPC EXCEPT ![s] = "closed"]
  /\ UNCHANGED <<Handler, srvPC, chDone, stopPC, ReadTimeout, i, ch>>
  /\ UNCHANGED <<crashed, cause, rdl, closing, rwc, wg, requestList, nClosed>>
  /\ UNCHANGED <<outVars, req>>
  /\ UNCHANGED atBroadcast

\* ------------------------------------------------------------------- Next
ServerStep(maxS, maxL) ==
  \/ \E h \in Handlers \cup {Nil} : Handle(h)
  \/ \E ok \in BOOLEAN, rt \in {0, 1}, hasCh \in BOOLEAN : ListenAndServe(ok, rt, hasCh)
  \/ \E certOk \in BOOLEAN, ok \in BOOLEAN, rt \in {0, 1}, hasCh \in BOOLEAN :
        ListenAndServeTLS(certOk, ok, rt, hasCh)
  \/ AcceptCheck
  \/ AcceptConn(maxS)
  \/ \E isTimeout \in BOOLEAN, wt \in {0, 1} : AcceptError(isTimeout, wt)
  \/ Stop(maxL)
  \/ StopReturn

ReadStep(s, maxL) ==
  \/ \E admit \in BOOLEAN : SessionStart(s, admit)
  \/ ReadArm(s)
  \/ \E r \in Reqs, id \in MsgIDs, kind \in {"op", "starttls"} :
        ReadRequest(s, r, id, kind, maxL)
  \/ ReadUnbind(s)
  \/ \E why \in {"eof", "ioerror", "decode"} : ReadFail(s, why)
  \/ ReadTimeoutFire(s)

RequestStep(r) ==
  \/ \E detected \in BOOLEAN : Register(r, detected)
  \/ \E mid0 \in MsgIDs \cup {0} : ResponseWrite(r, mid0)
  \/ Abandon(r)
  \/ \E detected \in BOOLEAN : HandlerReturn(r, detected)

PumpStep(s) ==
  \/ PumpWrite(s)
  \/ PumpFlush(s)
  \/ PumpExit(s)

WatcherStep(s) ==
  \/ WatcherShutdown(s)
  \/ WatcherClosing(s)
  \/ WatcherSend(s)
  \/ WatcherDeadline(s)

CloseStep(s) ==
  \/ CloseClosing(s)
  \/ CloseSweep(s)
  \/ CloseWait(s)
  \/ CloseWaitReturn(s)
  \/ CloseChanOut(s)
  \/ CloseWriteDone(s)
  \/ CloseConn(s)
  \/ CloseSrvDone(s)

\* the steps of the process with at most maxS accepted connections and a
\* load of at most maxL.  A panic ends the process: no action is enabled
\* after it.
Step(maxS, maxL) ==
  \/ ServerStep(maxS, maxL)
  \/ \E s \in Sessions : ReadStep(s, maxL)
  \/ \E s \in Sessions : PumpStep(s)
  \/ \E s \in Sessions : WatcherStep(s)
  \/ \E s \in Sessions : CloseStep(s)
  \/ \E r \in Reqs : RequestStep(r)

\* every session, with one request or a shutdown
Next == Step(MaxSessions, MaxLoad)
Spec == Init /\ [][Next]_vars

\* one session, with every request and a shutdown
SessionNext == Step(MaxSoloSessions, MaxSoloLoad)
SessionSpec == Init /\ [][SessionNext]_vars

\* a handler that uses the session's GetMessageByID, as a handler of
\* AbandonRequest does
LookupStep(r) ==
  \/ \E id \in MsgIDs : GetMessageByID(r, id)
  \/ GetMessageByIDReturn(r)

\* one session whose handlers look requests up
LookupNext ==
  \/ Step(MaxSoloSessions, MaxLookupLoad)
  \/ \E r \in Reqs : LookupStep(r)

LookupSpec == Init /\ [][LookupNext]_vars

\* one session, with two requests or with one request and a shutdown
FairNext == Step(MaxSoloSessions, MaxFairLoad)

\* Scheduling: every goroutine that can take a step eventually takes it, a
\* read that stays blocked under a deadline fails, and a read under the 1 ms
\* deadline fails once that deadline has passed.  The client, the network
\* and the callers of Handle, ListenAndServe and Stop are not obliged to do
\* anything, and a handler need not write.
ImminentTimeout(s) == rdl[s] = "imminent" /\ ReadTimeoutFire(s)

Fairness ==
  /\ WF_vars(AcceptCheck) /\ WF_vars(StopReturn)
  /\ \A s \in Sessions :
        /\ WF_vars(\E admit \in BOOLEAN : SessionStart(s, admit))
        /\ WF_vars(ReadArm(s))
        /\ WF_vars(ReadTimeoutFire(s))
        /\ SF_vars(ImminentTimeout(s))
        /\ WF_vars(PumpStep(s))
        /\ WF_vars(WatcherStep(s))
        /\ WF_vars(CloseStep(s))
  /\ \A r \in Reqs :
        /\ WF_vars(\E detected \in BOOLEAN : Register(r, detected))
        /\ WF_vars(Abandon(r))
        /\ WF_vars(\E detected \in BOOLEAN : HandlerReturn(r, detected))

FairSpec == Init /\ [][FairNext]_vars /\ Fairness

\* ------------------------------------------------------------- properties
TeardownPCs == {"c_closing", "c_sweep", "c_wait", "c_waiting", "c_chanout",
                "c_writedone", "c_conn", "c_srvdone", "closed"}
AfterBarrierPCs == {"c_chanout", "c_writedone", "c_conn", "c_srvdone", "closed"}

\* the messages whose encoding is complete on the connection, in wire order
WrittenQ(s) == [k \in 1..(Len(wire[s]) \div 2) |-> wire[s][2 * k].m]

NoticeCount(s) == Cardinality({k \in 1..Len(sentQ[s]) : sentQ[s][k].notice})

\* C1: every chunk on a session's connection is written by the write pump,
\* and the chunks of one message are adjacent: each message's head is
\* followed at once by its own tail, so no two encodings interleave and no
\* handler or watcher writes to the connection itself.
C1_SingleWriter ==
  \A s \in Sessions : \A k \in 1..Len(wire[s]) :
     /\ wire[s][k].by = "pump"
     /\ (k % 2 = 1) => wire[s][k].part = "head"
     /\ (k % 2 = 0) => wire[s][k].part = "tail" /\ wire[s][k].m = wire[s][k - 1].m

\* two handlers that ran concurrently and the watcher all had their messages
\* written
C1_Witness ==
  \E s \in Sessions :
     /\ Len(wire[s]) = 6
     /\ {wire[s][k].m.rid : k \in 1..6} = {0, 1, 2}
     /\ \E r \in Reqs : req[r].st = "running" /\ req[r].nout = 1

C3_ExactlyOneNotice ==
  \A s \in Sessions : (atBroadcast[s] /\ rwc[s] = "closed") => NoticeCount(s) = 1

\* C3: a session never has more than one Notice of Disconnection enqueued,
\* and none before chDone is closed; it has exactly one once its watcher has
\* taken the chDone branch and completed its send, and none while the watcher
\* has not sent; an enqueued Notice is written before the connection is
\* closed.
C3_AtMostOneNotice ==
  \A s \in Sessions :
     /\ NoticeCount(s) <= 1
     /\ NoticeCount(s) = 1 => chDone
     /\ wPC[s] = "deadline" => NoticeCount(s) = 1
     /\ wPC[s] \in {"off", "select", "send"} => NoticeCount(s) = 0
     /\ (rwc[s] = "closed" /\ NoticeCount(s) = 1) =>
           \E k \in 1..Len(WrittenQ(s)) : WrittenQ(s)[k].notice

\* a session live at the broadcast is closed with its one Notice written
C3_Witness ==
  \E s \in Sessions :
     /\ atBroadcast[s] /\ rwc[s] = "closed" /\ wPC[s] = "exit"
     /\ NoticeCount(s) = 1
     /\ wire[s][Len(wire[s])].m.notice

\* C4 as stated: once Stop has returned no session is live.
C4_StopWaitsForSessions ==
  stopPC = "returned" => \A s \in Sessions : ~Live(s)

\* C5 as stated: when the teardown's sweep runs, every request of the
\* session whose handler is running has its cancellation signal posted by
\* it, exactly once.
C5_SweepPostsOnce ==
  [][\A s \in Sessions : (sPC[s] = "c_sweep" /\ sPC'[s] = "c_wait") =>
        \A r \in Reqs : (req[r].sess = s /\ req[r].st = "running") =>
           req'[r].swept = 1]_vars

C7_ShutdownTerminates ==
  chDone ~> (crashed # "none" \/ (stopPC = "returned" /\ \A s \in Sessions : ~Live(s)))

\* C8 as stated: the teardown of a session whose admission hook returned an
\* error goes on to close its connection; it does not end the process at
\* close(c.chanOut).
C8_RejectionIsLocal ==
  [][\A s \in Sessions : (cause[s] = "reject" /\ sPC[s] = "c_chanout") =>
        crashed' # "close of nil channel (chanOut)"]_vars

\* C9 as stated: nothing is written to a session's connection after its
\* read loop has decoded an unbind request.
C9_NothingWrittenAfterUnbind ==
  [][\A s \in Sessions : (cause[s] = "unbind" /\ cause'[s] = "unbind") =>
        wire'[s] = wire[s]]_vars

\* C9: decoding an unbind request ends the read loop and starts the
\* teardown: the step itself dispatches no request, counts no handler and
\* enqueues nothing, and from then on the session reads and dispatches no
\* further request; what is enqueued afterwards comes from the requests
\* that were in flight already, or is the Notice of Disconnection.
C9_UnbindTerminates ==
  [][\A s \in Sessions : cause'[s] = "unbind" =>
        /\ sPC'[s] \in TeardownPCs
        /\ cause[s] # "unbind" =>
              /\ sPC[s] = "reading"
              /\ req' = req /\ wg' = wg /\ sentQ' = sentQ /\ wire' = wire
        /\ cause[s] = "unbind" =>
              /\ \A r \in Reqs : req'[r].sess = s => req[r].sess = s
              /\ \A r \in Reqs : (req'[r].sess = s /\ req'[r].st = "spawned") =>
                    req[r].st = "spawned"
              /\ \A k \in 1..Len(sentQ'[s]) : k > Len(sentQ[s]) =>
                    \/ sentQ'[s][k].notice
                    \/ req[sentQ'[s][k].rid].st = "running"]_vars

\* a session ended by an unbind is closed after a response of a request
\* that was in flight was enqueued during the teardown
C9_Witness ==
  \E s \in Sessions :
     /\ cause[s] = "unbind" /\ sPC[s] = "c_waiting"
     /\ pumpPC[s] = "write" /\ pumpMsg[s].rid # 0

\* C10: a registered handler never changes, and a Handle call on a server
\* that has a handler panics.
C10_HandlerSetOnce ==
  [][/\ Handler # Nil => Handler' = Handler
     /\ (Handler # Nil /\ \E h \in Handlers \cup {Nil} : Handle(h)) =>
           crashed' = "LDAP: multiple Handler registrations"]_vars

\* a second registration has panicked and the first handler is in place
C10_Witness ==
  crashed = "LDAP: multiple Handler registrations" /\ Handler = "h1"

\* C11: at most one error is ever sent on the startup channel; it is sent
\* exactly when net.Listen, tls.Listen or the certificate load failed, after
\* which ListenAndServe has returned for good: the accept loop is never
\* entered and no connection is accepted; a server whose startup succeeded
\* has sent no error.
C11_StartupErrorOnce ==
  [][/\ ch' <= 1
     /\ srvPC' = "bindfail" => ch' = 1
     /\ ch' = 1 => srvPC' \in {"bindfail", "dead"} /\ i' = 0 /\ srvWg' = 0
     /\ ch' = 1 => \A s \in Sessions : sPC'[s] = "none" /\ rwc'[s] = "none"
     /\ srvPC' \in {"check", "accept", "returned"} => ch' = 0
     /\ srvPC = "bindfail" => srvPC' \in {"bindfail", "dead"}]_vars

\* the listener could not be bound: one error was sent, and Stop was called
\* on the server that never started
C11_Witness ==
  srvPC = "bindfail" /\ ch = 1 /\ Handler # Nil /\ chDone

\* C12 as stated: no send on a session's outbound queue, by a handler or by
\* the shutdown watcher, is made once teardown has closed the queue.
C12_NoSendOnClosedQueue ==
  [][/\ \A s \in Sessions : (wPC[s] = "send" /\ wPC'[s] # "send") => chanOut[s] = "open"
     /\ crashed' \notin {"send on closed channel (watcher)",
                         "send on closed channel (handler)"}]_vars

\* the position that follows each position of client.close
CloseOrder ==
  [p \in TeardownPCs |->
     CASE p = "c_closing" -> {"c_sweep"}
       [] p = "c_sweep" -> {"c_wait"}
       [] p = "c_wait" -> {"c_waiting", "c_chanout"}
       [] p = "c_waiting" -> {"c_chanout"}
       [] p = "c_chanout" -> {"c_writedone"}
       [] p = "c_writedone" -> {"c_conn"}
       [] p = "c_conn" -> {"c_srvdone"}
       [] p = "c_srvdone" -> {"closed"}
       [] OTHER -> {}]

\* C13: whatever ended the read loop, the teardown of a session takes its
\* steps in one order, each with its effect: close(closing) and the imminent
\* read deadline, the sweep, the wait for the handlers (passed on a zero
\* counter only), close(chanOut), the wait for writeDone, the close of the
\* connection, the decrement of the Server barrier.  The connection is
\* closed only after the write pump has finished and the barrier is
\* decremented only after the connection is closed.
C13_TeardownOrder ==
  [][\A s \in Sessions :
       /\ (sPC[s] \in TeardownPCs /\ sPC'[s] # sPC[s] /\ crashed' = "none") =>
             sPC'[s] \in CloseOrder[sPC[s]]
       /\ (sPC[s] \notin TeardownPCs /\ sPC'[s] \in TeardownPCs) =>
             sPC'[s] = "c_closing" /\ cause'[s] # "none"
       /\ sPC'[s] \in (TeardownPCs \ {"c_closing"}) =>
             closing'[s] /\ rdl'[s] = "imminent"
       /\ (sPC[s] = "c_sweep" /\ sPC'[s] = "c_wait") => req' = Sweep(s)
       /\ (sPC[s] # "c_chanout" /\ sPC'[s] = "c_chanout") => wg[s] = 0
       /\ sPC'[s] \in {"c_writedone", "c_conn", "c_srvdone", "closed"} =>
             chanOut'[s] = "closed"
       /\ sPC'[s] \in {"c_conn", "c_srvdone", "closed"} => writeDone'[s]
       /\ rwc'[s] = "closed" <=> sPC'[s] \in {"c_srvdone", "closed"}
       /\ rwc'[s] = "closed" => writeDone'[s] /\ pumpPC'[s] = "exit"
       /\ (sPC[s] = "c_srvdone" /\ sPC'[s] = "closed") => srvWg' = srvWg - 1
       /\ (srvWg' < srvWg /\ crashed' = "none") =>
             \E t \in Sessions : sPC[t] = "c_srvdone" /\ sPC'[t] = "closed"]_vars

\* a session that the shutdown ended has gone through the whole teardown
C13_Witness ==
  \E s \in Sessions :
     /\ sPC[s] = "closed" /\ cause[s] = "error" /\ atBroadcast[s]
     /\ rwc[s] = "closed" /\ writeDone[s] /\ srvWg = 0 /\ stopPC = "returned"

\* C14: the Server barrier equals the number of sessions that were spawned
\* and have not completed their teardown, and is never negative; it goes up
\* by one exactly on the step that spawns a session and down by one exactly
\* on the last step of a session's teardown.
C14_BarrierCountsSessions ==
  [][/\ srvWg' = Cardinality({s \in Sessions : Live(s)'})
     /\ srvWg' >= 0
     /\ crashed' = "none" =>
           /\ \A s \in Sessions : (sPC[s] = "none" /\ sPC'[s] # "none") =>
                 sPC'[s] = "start" /\ srvWg' = srvWg + 1
           /\ \A s \in Sessions : (sPC[s] # "closed" /\ sPC'[s] = "closed") =>
                 sPC[s] = "c_srvdone" /\ srvWg' = srvWg - 1
           /\ srvWg' # srvWg =>
                 \E s \in Sessions : \/ (sPC[s] = "none" /\ sPC'[s] = "start")
                                      \/ (sPC[s] = "c_srvdone" /\ sPC'[s] = "closed")]_vars

\* one session has completed its teardown while another is being served
C14_Witness ==
  \E s, t \in Sessions :
     /\ sPC[s] = "closed" /\ sPC[t] \in {"top", "reading"}
     /\ srvWg = 1

\* C15 as stated: an accept call that returns an error creates no session,
\* touches no connection and leaves the barrier alone: the accept loop goes
\* on to its next iteration, whatever the error and the configured timeouts.
C15_AcceptErrorContinues ==
  [][(\E isTimeout \in BOOLEAN, wt \in {0, 1} : AcceptError(isTimeout, wt)) =>
        /\ crashed' = "none"
        /\ srvPC' = "check"
        /\ srvWg' = srvWg /\ i' = i /\ sPC' = sPC /\ rwc' = rwc]_vars

\* C16 as stated: while a handler invocation is running, its Message is the
\* registry entry under its message id.
C16_RunningIsRegistered ==
  \A r \in Reqs : req[r].st = "running" =>
     requestList[req[r].sess][req[r].id] = r

InFlight(r) == req[r].st \in {"spawned", "running"}

\* C17: a STARTTLS request runs on the read loop: from its decoding to the
\* return of its handler the read loop is inside ProcessRequestMessage, so
\* it reads no request and does not end, while the decoding of any other
\* request leaves the read loop at its next iteration.  The synchronous
\* invocation is counted in c.wg, registered before its handler runs and
\* unregistered when it returns.
C17_StartTLSSynchronous ==
  [][crashed' = "none" =>
       /\ \A r \in Reqs : (req'[r].kind = "starttls" /\ InFlight(r)') =>
             sPC'[req'[r].sess] = "sync" /\ wg'[req'[r].sess] >= 1
       /\ \A s \in Sessions : sPC'[s] = "sync" =>
             Cardinality({r \in Reqs : req'[r].sess = s /\ req'[r].kind = "starttls"
                                         /\ InFlight(r)'}) = 1
       /\ \A s \in Sessions : sPC[s] = "sync" =>
             /\ \A r \in Reqs : (req'[r].sess = s /\ req'[r].st = "spawned") =>
                   req[r].st = "spawned"
             /\ cause'[s] = cause[s]
             /\ sPC'[s] \in {"sync", LoopTop}
       /\ \A r \in Reqs : (req[r].st = "none" /\ req'[r].st = "spawned") =>
             /\ sPC[req'[r].sess] = "reading"
             /\ wg'[req'[r].sess] = wg[req'[r].sess] + 1
             /\ sPC'[req'[r].sess] = IF req'[r].kind = "starttls" THEN "sync" ELSE LoopTop
       /\ \A r \in Reqs : req[r].kind = "starttls" =>
             /\ (req[r].st = "spawned" /\ req'[r].st = "running") =>
                   requestList'[req[r].sess][req[r].id] = r
             /\ (req[r].st = "running" /\ req'[r].st # "running") =>
                   /\ requestList'[req[r].sess][req[r].id] = 0
                   /\ wg'[req[r].sess] = wg[req[r].sess] - 1
                   /\ sPC'[req[r].sess] = LoopTop]_vars

\* a STARTTLS handler is running on the read loop while the handler of an
\* earlier request runs in its own goroutine
C17_Witness ==
  \E r, q \in Reqs :
     /\ req[r].kind = "starttls" /\ req[r].st = "running"
     /\ req[q].kind = "op" /\ req[q].st = "running" /\ req[q].sess = req[r].sess
     /\ sPC[req[r].sess] = "sync"

\* C18: the messages written to a session's connection are, in order, the
\* messages whose sends on the outbound queue completed, up to the one the
\* write pump is holding: nothing is reordered, duplicated or dropped; and
\* every response sent by a handler carries the message id of the request
\* the handler was invoked for, whatever id the handler's message had.
C18_FifoAndStamped ==
  \A s \in Sessions :
     /\ Len(wire[s]) <= 2 * Len(sentQ[s])
     /\ Len(sentQ[s]) - Len(WrittenQ(s)) <= 1
     /\ \A k \in 1..Len(wire[s]) : wire[s][k].m = sentQ[s][(k + 1) \div 2]
     /\ pumpPC[s] \in {"write", "flush"} => pumpMsg[s] = sentQ[s][Len(sentQ[s])]
     /\ \A k \in 1..Len(sentQ[s]) : ~sentQ[s][k].notice =>
           /\ req[sentQ[s][k].rid].sess = s
           /\ sentQ[s][k].mid = req[sentQ[s][k].rid].id

\* the responses of two concurrent handlers, invoked for different message
\* ids, are both written, the second request's response first
C18_Witness ==
  \E s \in Sessions :
     /\ Len(WrittenQ(s)) = 2
     /\ WrittenQ(s)[1].rid = 2 /\ WrittenQ(s)[2].rid = 1
     /\ WrittenQ(s)[1].mid # WrittenQ(s)[2].mid

\* C19 as stated: every access to c.requestList is made under c.mutex, so
\* while a handler of a session is inside a lookup by message id no insert
\* (registerRequest), no delete (unregisterRequest) and no teardown sweep of
\* that session takes place, and the process does not end on a map race.
C19_LookupExcludesWrites ==
  [][\A r \in Reqs : req[r].lookup # 0 =>
        /\ ~\E q \in Reqs, detected \in BOOLEAN :
               req[q].sess = req[r].sess /\ Register(q, detected)
        /\ ~\E q \in Reqs, detected \in BOOLEAN :
               req[q].sess = req[r].sess /\ HandlerReturn(q, detected)
        /\ ~CloseSweep(req[r].sess)
        /\ crashed' # "concurrent map read and map write"]_vars

\* C20: chDone is closed by a Stop call made while it is open, and by nothing
\* else, and it stays closed while the process runs; a Stop call made once
\* chDone is closed has one outcome: it does not return, it panics on
\* close(s.chDone).
C20_SecondStopFaults ==
  /\ [](chDone => stopPC \in {"waiting", "returned"})
  /\ []((chDone /\ stopPC = "returned") =>
          /\ ENABLED (Stop(MaxSoloLoad) /\ crashed' = "close of closed channel (chDone)")
          /\ ~ENABLED (Stop(MaxSoloLoad) /\ crashed' = "none"))
  /\ [][/\ (~chDone /\ chDone') => (Stop(MaxSoloLoad) /\ crashed' = "none")
        /\ (chDone /\ crashed' = "none") => chDone'
        /\ crashed' = "close of closed channel (chDone)" =>
              chDone /\ stopPC = "returned"]_vars

\* a second Stop call has ended the process
C20_Witness ==
  crashed = "close of closed channel (chDone)" /\ Handler # Nil

====
